---- MODULE Spec2Model ----
(***************************************************************************)
(* Upstream acquisition (boulder: upstream.rs) and repository index        *)
(* synchronisation (moss: repository/manager.rs) as state machines.        *)
(*                                                                         *)
(*   SpecPlain    sequential Plain::fetch calls against one cache          *)
(*   SpecHash     Hash::from_str and Plain::path over declared strings     *)
(*   SpecShare    sequential Plain::fetch and Installed::share calls       *)
(*   SpecSync     one sync call: bounded concurrent fetch+share tasks      *)
(*   SpecGit      sequential Git::fetch calls against one remote           *)
(*   SpecRefresh  sequential Manager::refresh and remove_repository calls   *)
(*   SpecManager  Manager::refresh_all over several repositories           *)
(*   SpecCalls    add, remove, refresh and refresh_all calls on one Manager *)
(***************************************************************************)
EXTENDS Integers, Sequences, FiniteSets, TLC

VARIABLES
    fs,         \* the filesystem: a set of inodes [links, opens, data]
    crossDev,   \* cache and upstream directory lie on different filesystems
    recipe,     \* recipe.upstreams as declared (hashes not yet parsed)
    ups,        \* per task: the parsed Upstream::Plain it works on
    pc,         \* per task: the suspension point of its future
    io,         \* per task: locals of Plain::fetch (stream, hasher, out, ...)
    result,     \* per task: what fetch / the task returned
    dropped,    \* tasks whose future was dropped before it completed
    syncState,  \* "none" (no sync call), "init", "running", "ok", "err"
    syncErr,    \* the error sync returned
    nextIdx,    \* next element of stream::iter(&upstreams) to be taken
    log,        \* SpecPlain: the fetch calls that have returned, in order
    remote,     \* the git repository behind the upstream's URI
    finalTree,  \* the working tree at Git::final_path
    stagingTree,\* the bare mirror at Git::staging_path
    gitUp,      \* the Upstream::Git of the current Git::fetch call
    gitPc,      \* where the current Git::fetch call is
    gitRuns,    \* the git subprocesses the current call has run, with status
    gitResult,  \* what the call returned
    gitCalls,   \* Git::fetch calls made so far
    repositories, \* Manager.repositories: id -> Repository
    db,         \* per repository: its meta database, package id -> Meta
    indexFile,  \* per repository: the payloads of <repo dir>/stone.index
    rpc,        \* per repository: where its refresh_index call is
    rpos,       \* per repository: payloads the call has taken off the stream
    rerr,       \* per repository: the error its refresh_index returned
    adds,       \* per repository: the batch_add calls of its refresh_index
    prevDb,     \* per repository: its database when refresh_index was called
    mgr,        \* the Manager call in progress
    mgrResult,  \* what the last Manager call returned
    mgrCalls,   \* Manager calls made so far
    dirs,       \* repositories whose directory (index file, db) is on disk
    cancelled,  \* repositories whose refresh_index future was dropped
    configs     \* the repository configs saved under the root: id -> Repository

plainVars == <<fs, crossDev, recipe, ups, pc, io, result, dropped,
               syncState, syncErr, nextIdx, log>>

gitVars == <<remote, finalTree, stagingTree, gitUp, gitPc, gitRuns,
             gitResult, gitCalls>>

repoVars == <<repositories, db, indexFile, rpc, rpos, rerr, adds, prevDb,
              mgr, mgrResult, mgrCalls, dirs, cancelled, configs>>

vars == <<plainVars, gitVars, repoVars>>

(***************************************************************************)
(* Bounds of the model.                                                    *)
(***************************************************************************)
NumUpstreams == 3       \* upstreams declared by the recipe
BodyLen == 2            \* chunks in a response body
HexLen == 6             \* characters of a hex digest (64 in the program)
MaxCalls == 2           \* SpecPlain: fetch calls made in a row
MaxGitCalls == 3        \* SpecGit: Git::fetch calls made in a row
NumRefs == 2            \* refs the remote git repository may publish
\* moss::environment::MAX_NETWORK_CONCURRENCY, at the model's scale
MAX_NETWORK_CONCURRENCY == 2
NumRepos == 2           \* repository ids
NumPkgHashes == 2       \* package hashes an index may carry
MaxIndexLen == 3        \* payloads in an index file
MaxMgrCalls == 2        \* SpecRefresh: Manager calls made in a row
\* moss::environment::DB_BATCH_SIZE, at the model's scale
DB_BATCH_SIZE == 2

Tasks == 1..NumUpstreams
Chunks == 1..2
\* response bodies: BodyLen chunks, one body per chunk value
Bodies == {[i \in 1..BodyLen |-> c] : c \in Chunks}

(***************************************************************************)
(* Sha256 and hex::encode.  The digest is computed incrementally, chunk by *)
(* chunk, as the fetch loop does; it is injective on the byte strings of   *)
(* the model (0 is the byte of a hole).                                    *)
(***************************************************************************)
Sha256New == 1

Sha256Update(h, b) == h * 3 + b

RECURSIVE Sha256Of(_)
Sha256Of(data) ==
    IF data = <<>> THEN Sha256New
    ELSE Sha256Update(Sha256Of(SubSeq(data, 1, Len(data) - 1)), data[Len(data)])

HexEncode(n) == [i \in 1..HexLen |-> (n \div (16 ^ (HexLen - i))) % 16]

Sha256Hex(data) == HexEncode(Sha256Of(data))

(***************************************************************************)
(* Hash::from_str, Plain::name, Plain::path.                               *)
(***************************************************************************)
MinHashLen == 5

MaxHashChars == 6

\* A string is a sequence of characters, each a code point below 2048: the
\* hex digits 0..15 and other code points below 128 take one byte in UTF-8,
\* the others two.
CharWidth(c) == IF c < 128 THEN 1 ELSE 2

\* str::len: the length in bytes
ByteLen(s) == Len(s) + Cardinality({i \in DOMAIN s : CharWidth(s[i]) = 2})

\* the number of characters that end at byte offset n, if a character does
CharsBefore(s, n) == {k \in 0..Len(s) : ByteLen(SubSeq(s, 1, k)) = n}

\* str::is_char_boundary
IsCharBoundary(s, n) == CharsBefore(s, n) # {}

\* &s[..n] and &s[n..], where n is a character boundary
SliceTo(s, n) == SubSeq(s, 1, CHOOSE k \in CharsBefore(s, n) : TRUE)

SliceFrom(s, n) == SubSeq(s, (CHOOSE k \in CharsBefore(s, n) : TRUE) + 1, Len(s))

HashFromStr(s) ==
    IF ByteLen(s) < MinHashLen THEN [ok |-> FALSE, hash |-> s]
    ELSE [ok |-> TRUE, hash |-> s]

Last(s) == IF s = <<>> THEN "" ELSE s[Len(s)]

PlainName(u) == IF u.rename # "" THEN u.rename ELSE Last(u.uri)

\* &hash[..5] or &hash[hash.len() - 5..] panics: the offset is out of range
\* or inside a character
PathPanics(hash) ==
    \/ ~IsCharBoundary(hash, MinHashLen)
    \/ ~IsCharBoundary(hash, ByteLen(hash) - MinHashLen)

PlainPath(u) ==
    IF PathPanics(u.hash) THEN <<"panic">>
    ELSE <<"fetched", SliceTo(u.hash, MinHashLen),
           SliceFrom(u.hash, ByteLen(u.hash) - MinHashLen), u.hash>>

ShareTarget(u) == <<"upstreams", PlainName(u)>>

(***************************************************************************)
(* The filesystem.  An inode lives while a name links to it or a task      *)
(* holds it open; a task holds at most one file open (`out`).              *)
(***************************************************************************)
FsExists(f, n) == \E i \in f : n \in i.links

FsData(f, n) == (CHOOSE i \in f : n \in i.links).data

FsGc(f) == {i \in f : i.links # {} \/ i.opens # {}}

\* File::create: O_CREAT | O_TRUNC
FsCreate(f, n, t) ==
    IF FsExists(f, n)
    THEN {IF n \in i.links THEN [i EXCEPT !.data = <<>>, !.opens = @ \cup {t}]
          ELSE i : i \in f}
    ELSE f \cup {[links |-> {n}, opens |-> {t}, data |-> <<>>]}

WriteAt(d, off, b) ==
    [k \in 1..(IF Len(d) > off THEN Len(d) ELSE off + 1) |->
        IF k = off + 1 THEN b ELSE IF k <= Len(d) THEN d[k] ELSE 0]

FsWrite(f, t, off, b) ==
    {IF t \in i.opens THEN [i EXCEPT !.data = WriteAt(@, off, b)] ELSE i : i \in f}

FsClose(f, ts) == FsGc({[i EXCEPT !.opens = @ \ ts] : i \in f})

FsUnlink(f, n) == FsGc({[i EXCEPT !.links = @ \ {n}] : i \in f})

\* linkat: fails on a missing source, an existing target, or across devices
FsCanLink(f, src, dst) == FsExists(f, src) /\ ~FsExists(f, dst) /\ ~crossDev

FsLink(f, src, dst) ==
    {IF src \in i.links THEN [i EXCEPT !.links = @ \cup {dst}] ELSE i : i \in f}

\* fs::copy: opens the source, opens the target O_CREAT | O_TRUNC, copies
FsCopy(f, src, dst) ==
    LET d == FsData(f, src) IN
    IF FsExists(f, dst)
    THEN {IF dst \in i.links
          THEN [i EXCEPT !.data = IF src \in i.links THEN <<>> ELSE d]
          ELSE i : i \in f}
    ELSE f \cup {[links |-> {dst}, opens |-> {}, data |-> d]}

(***************************************************************************)
(* Task state.                                                             *)
(***************************************************************************)
NoUpstream == [uri |-> <<>>, hash |-> <<>>, rename |-> ""]

IoInit == [body |-> <<>>, pos |-> 0, hasher |-> Sha256New, off |-> 0,
           reqs |-> 0, existed |-> FALSE]

NoResult == [kind |-> "none", was_cached |-> FALSE, path |-> <<>>,
             name |-> "", expected |-> <<>>, got |-> <<>>, at |-> ""]

Installed(u, cached) ==
    [NoResult EXCEPT !.kind = "Installed", !.was_cached = cached,
                     !.path = PlainPath(u), !.name = PlainName(u)]

Failure(kind, at) == [NoResult EXCEPT !.kind = kind, !.at = at]

HashMismatch(u, got) ==
    [NoResult EXCEPT !.kind = "HashMismatch", !.name = PlainName(u),
                     !.expected = u.hash, !.got = got, !.at = "remove"]

ActivePcs == {"start", "get", "create", "stream", "flush", "remove", "copy"}

InFlight(t) == pc[t] \in ActivePcs /\ t \notin dropped

InFlightCount == Cardinality({t \in Tasks : InFlight(t)})

\* CanAdmit without the limit of buffer_unordered
CanAdmit_Unbounded ==
    /\ syncState = "running"
    /\ nextIdx <= NumUpstreams

\* BufferUnordered::poll_next first takes futures from the source stream while
\* fewer than the maximum are in progress, and only then polls those it holds
CanAdmit ==
    /\ syncState = "running"
    /\ nextIdx <= NumUpstreams
    /\ InFlightCount < MAX_NETWORK_CONCURRENCY

\* FuturesUnordered polls a future it was just given before it polls again
\* one that was woken later, and only futures that are still held
Runnable(t) ==
    /\ InFlight(t)
    /\ ~CanAdmit
    /\ pc[t] = "start" \/ \A u \in Tasks : InFlight(u) => pc[u] # "start"

\* the content at a name, or "absent"
Content(f, n) == IF FsExists(f, n) THEN <<"file", FsData(f, n)>> ELSE <<"absent">>

LogEntry(t, iot, r, f) ==
    [hash |-> ups[t].hash, existed |-> iot.existed, reqs |-> iot.reqs,
     kind |-> r.kind, was_cached |-> r.was_cached, path |-> r.path,
     content |-> Content(f, PlainPath(ups[t]))]

(***************************************************************************)
(* How a task's future ends.                                               *)
(***************************************************************************)
\* TaskFails as with collect in place of try_collect: the error is kept and
\* sync goes on
TaskFails_KeepsRunning(t, r, f) ==
    /\ pc' = [pc EXCEPT ![t] = "failed"]
    /\ result' = [result EXCEPT ![t] = r]
    /\ fs' = FsClose(f, {t})
    /\ log' = IF syncState = "none" THEN Append(log, LogEntry(t, io[t], r, fs'))
              ELSE log
    /\ UNCHANGED <<gitVars, repoVars, crossDev, recipe, ups, io, nextIdx, dropped, syncState, syncErr>>

\* TaskFails with the other futures detached from the stream: sync returns
\* the error and they run on
TaskFails_Detached(t, r, f) ==
    /\ pc' = [pc EXCEPT ![t] = "failed"]
    /\ result' = [result EXCEPT ![t] = r]
    /\ fs' = FsClose(f, {t})
    /\ syncState' = IF syncState = "running" THEN "err" ELSE syncState
    /\ syncErr' = IF syncState = "running" THEN r ELSE syncErr
    /\ log' = IF syncState = "none" THEN Append(log, LogEntry(t, io[t], r, fs'))
              ELSE log
    /\ UNCHANGED <<gitVars, repoVars, crossDev, recipe, ups, io, nextIdx, dropped>>

\* The task's future returns Err(r).  Inside sync, try_collect returns the
\* error at once and the stream, with every other future in it, is dropped.
TaskFails(t, r, f) ==
    LET gone == IF syncState = "running"
                THEN {u \in Tasks \ {t} : InFlight(u)} ELSE {} IN
    /\ pc' = [pc EXCEPT ![t] = "failed"]
    /\ result' = [result EXCEPT ![t] = r]
    /\ dropped' = dropped \cup gone
    /\ fs' = FsClose(f, gone \cup {t})
    /\ syncState' = IF syncState = "running" THEN "err" ELSE syncState
    /\ syncErr' = IF syncState = "running" THEN r ELSE syncErr
    /\ log' = IF syncState = "none" THEN Append(log, LogEntry(t, io[t], r, fs'))
              ELSE log
    /\ UNCHANGED <<gitVars, repoVars, crossDev, recipe, ups, io, nextIdx>>

\* Plain::fetch returns Ok(Installed::Plain).  Inside sync the task goes on,
\* without suspending, to Installed::share: linkat, and copy if that failed.
FetchReturns(t, cached, iot) ==
    LET r == Installed(ups[t], cached)
        f == FsClose(fs, {t})
        src == PlainPath(ups[t])
        dst == ShareTarget(ups[t]) IN
    /\ result' = [result EXCEPT ![t] = r]
    /\ io' = [io EXCEPT ![t] = iot]
    /\ IF syncState = "running"
       THEN IF FsCanLink(f, src, dst)
            THEN fs' = FsLink(f, src, dst) /\ pc' = [pc EXCEPT ![t] = "done"]
            ELSE fs' = f /\ pc' = [pc EXCEPT ![t] = "copy"]
       ELSE fs' = f /\ pc' = [pc EXCEPT ![t] = "fetched"]
    /\ log' = IF syncState = "none" THEN Append(log, LogEntry(t, iot, r, fs'))
              ELSE log
    /\ UNCHANGED <<gitVars, repoVars, crossDev, recipe, ups, dropped, syncState, syncErr, nextIdx>>

(***************************************************************************)
(* Plain::fetch, one action per suspension point.                          *)
(***************************************************************************)
\* FetchBegin without the path.exists() short-circuit
FetchBegin_NoCacheTest(t) ==
    /\ InFlight(t) /\ pc[t] = "start"
    /\ io' = [io EXCEPT ![t] = [IoInit EXCEPT !.reqs = 1]]
    /\ pc' = [pc EXCEPT ![t] = "get"]
    /\ UNCHANGED <<gitVars, repoVars, fs, crossDev, recipe, ups, result, dropped,
                   syncState, syncErr, nextIdx, log>>

\* first poll: path.exists() short-circuits, or request::get is sent
FetchBegin(t) ==
    /\ Runnable(t) /\ pc[t] = "start"
    /\ IF FsExists(fs, PlainPath(ups[t]))
       THEN FetchReturns(t, TRUE, [IoInit EXCEPT !.existed = TRUE])
       ELSE /\ io' = [io EXCEPT ![t] = [IoInit EXCEPT !.reqs = 1]]
            /\ pc' = [pc EXCEPT ![t] = "get"]
            /\ UNCHANGED <<gitVars, repoVars, fs, crossDev, recipe, ups, result, dropped,
                           syncState, syncErr, nextIdx, log>>

\* request::get(uri).await answers with a chunk stream
GetOk(t) ==
    /\ Runnable(t) /\ pc[t] = "get"
    /\ \E b \in Bodies : io' = [io EXCEPT ![t].body = b]
    /\ pc' = [pc EXCEPT ![t] = "create"]
    /\ UNCHANGED <<gitVars, repoVars, fs, crossDev, recipe, ups, result, dropped,
                   syncState, syncErr, nextIdx, log>>

\* request::get(uri).await? fails
GetErr(t) ==
    /\ Runnable(t) /\ pc[t] = "get"
    /\ TaskFails(t, Failure("Request", "get"), fs)

\* fs::File::create(&path).await
CreateOk(t) ==
    /\ Runnable(t) /\ pc[t] = "create"
    /\ fs' = FsCreate(fs, PlainPath(ups[t]), t)
    /\ pc' = [pc EXCEPT ![t] = "stream"]
    /\ UNCHANGED <<gitVars, repoVars, crossDev, recipe, ups, io, result, dropped,
                   syncState, syncErr, nextIdx, log>>

\* fs::File::create(&path).await? fails: no file is made
CreateErr(t) ==
    /\ Runnable(t) /\ pc[t] = "create"
    /\ TaskFails(t, Failure("Io", "create"), fs)

\* stream.next() yields a chunk: hasher.update and out.write_all
ChunkOk(t) ==
    /\ Runnable(t) /\ pc[t] = "stream"
    /\ io[t].pos < Len(io[t].body)
    /\ LET b == io[t].body[io[t].pos + 1] IN
        /\ io' = [io EXCEPT ![t].pos = @ + 1,
                            ![t].hasher = Sha256Update(@, b),
                            ![t].off = @ + 1]
        /\ fs' = FsWrite(fs, t, io[t].off, b)
    /\ UNCHANGED <<gitVars, repoVars, crossDev, recipe, ups, pc, result, dropped,
                   syncState, syncErr, nextIdx, log>>

\* stream.next() yields Err (transport): `chunk?` returns, the file stays
ChunkErr(t) ==
    /\ Runnable(t) /\ pc[t] = "stream"
    /\ io[t].pos < Len(io[t].body)
    /\ TaskFails(t, Failure("Request", "stream"), fs)

\* out.write_all(bytes).await? fails: the file stays
WriteErr(t) ==
    /\ Runnable(t) /\ pc[t] = "stream"
    /\ io[t].pos < Len(io[t].body)
    /\ TaskFails(t, Failure("Io", "write"), fs)

\* stream.next() yields None: the loop ends, out.flush() is awaited
StreamEnd(t) ==
    /\ Runnable(t) /\ pc[t] = "stream"
    /\ io[t].pos = Len(io[t].body)
    /\ pc' = [pc EXCEPT ![t] = "flush"]
    /\ UNCHANGED <<gitVars, repoVars, fs, crossDev, recipe, ups, io, result, dropped,
                   syncState, syncErr, nextIdx, log>>

\* out.flush().await? fails: the file stays
FlushErr(t) ==
    /\ Runnable(t) /\ pc[t] = "flush"
    /\ TaskFails(t, Failure("Io", "flush"), fs)

\* the digest is finalized and compared with the declared hash
Verify(t) ==
    /\ Runnable(t) /\ pc[t] = "flush"
    /\ IF HexEncode(io[t].hasher) # ups[t].hash
       THEN /\ pc' = [pc EXCEPT ![t] = "remove"]
            /\ UNCHANGED <<gitVars, repoVars, fs, crossDev, recipe, ups, io, result, dropped,
                           syncState, syncErr, nextIdx, log>>
       ELSE FetchReturns(t, FALSE, io[t])

\* Remove without the remove_file
Remove_KeepsFile(t) ==
    /\ InFlight(t) /\ pc[t] = "remove"
    /\ TaskFails(t, HashMismatch(ups[t], HexEncode(io[t].hasher)), fs)

\* fs::remove_file(&path).await?, then Err(HashMismatch)
Remove(t) ==
    /\ Runnable(t) /\ pc[t] = "remove"
    /\ IF FsExists(fs, PlainPath(ups[t]))
       THEN TaskFails(t, HashMismatch(ups[t], HexEncode(io[t].hasher)),
                      FsUnlink(fs, PlainPath(ups[t])))
       ELSE TaskFails(t, Failure("Io", "remove"), fs)

\* Installed::share fell back to copy(&path, &target).await?
Copy(t) ==
    /\ Runnable(t) /\ pc[t] = "copy"
    /\ IF FsExists(fs, PlainPath(ups[t]))
       THEN /\ fs' = FsCopy(fs, PlainPath(ups[t]), ShareTarget(ups[t]))
            /\ pc' = [pc EXCEPT ![t] = "done"]
            /\ UNCHANGED <<gitVars, repoVars, crossDev, recipe, ups, io, result, dropped,
                           syncState, syncErr, nextIdx, log>>
       ELSE TaskFails(t, Failure("Io", "copy"), fs)

FetchStep(t) ==
    \/ FetchBegin(t)
    \/ GetOk(t)
    \/ GetErr(t)
    \/ CreateOk(t)
    \/ CreateErr(t)
    \/ ChunkOk(t)
    \/ ChunkErr(t)
    \/ WriteErr(t)
    \/ StreamEnd(t)
    \/ FlushErr(t)
    \/ Verify(t)
    \/ Remove(t)

(***************************************************************************)
(* SpecPlain: a caller makes Plain::fetch calls one after the other.       *)
(***************************************************************************)
DeclaredHashes == {Sha256Hex(b) : b \in Bodies}

FileNames == [i \in Tasks |-> <<"foo.tar", "bar.tar", "baz.tar", "qux.tar">>[i]]

UriOf(i) == <<"src", FileNames[i]>>

PlainUpstreams ==
    {[uri |-> UriOf(1), hash |-> h, rename |-> ""] : h \in DeclaredHashes}

PlainCall(u) ==
    /\ syncState = "none"
    /\ pc[1] \in {"idle", "fetched", "failed"}
    /\ Len(log) < MaxCalls
    /\ ups' = [ups EXCEPT ![1] = u]
    /\ pc' = [pc EXCEPT ![1] = "start"]
    /\ io' = [io EXCEPT ![1] = IoInit]
    /\ result' = [result EXCEPT ![1] = NoResult]
    /\ UNCHANGED <<gitVars, repoVars, fs, crossDev, recipe, dropped, syncState, syncErr, nextIdx, log>>

\* Installed::share called on what the last fetch returned, for the first
\* time or again: linkat, and the copy is awaited if that failed
ShareCall ==
    /\ syncState = "none"
    /\ pc[1] \in {"fetched", "done"}
    /\ result[1].kind = "Installed"
    /\ LET src == result[1].path
           dst == <<"upstreams", result[1].name>>
       IN  IF FsCanLink(fs, src, dst)
           THEN fs' = FsLink(fs, src, dst) /\ pc' = [pc EXCEPT ![1] = "done"]
           ELSE fs' = fs /\ pc' = [pc EXCEPT ![1] = "copy"]
    /\ UNCHANGED <<gitVars, repoVars, crossDev, recipe, ups, io, result, dropped,
                   syncState, syncErr, nextIdx, log>>

\* the strings a recipe can declare as a hash: hex digits and a two-byte
\* character, up to MaxHashChars characters
HashChars == {1, 2, 233}

RECURSIVE StringsUpTo(_)
StringsUpTo(n) ==
    IF n = 0 THEN {<<>>}
    ELSE LET shorter == StringsUpTo(n - 1) IN
         shorter \cup {Append(h, c) : h \in {x \in shorter : Len(x) = n - 1},
                                       c \in HashChars}

HashStrings == StringsUpTo(MaxHashChars)

\* Upstream::from_recipe on the recipe's entry: hash.parse()?
FromRecipeCall ==
    /\ syncState = "none"
    /\ recipe # <<>>
    /\ pc[1] = "idle"
    /\ IF HashFromStr(recipe[1].hash).ok
       THEN /\ ups' = [ups EXCEPT ![1] = [uri |-> recipe[1].uri,
                                          hash |-> HashFromStr(recipe[1].hash).hash,
                                          rename |-> recipe[1].rename]]
            /\ pc' = [pc EXCEPT ![1] = "parsed"]
            /\ UNCHANGED result
       ELSE /\ pc' = [pc EXCEPT ![1] = "failed"]
            /\ result' = [result EXCEPT ![1] = Failure("ParseHash", "parse")]
            /\ UNCHANGED ups
    /\ UNCHANGED <<gitVars, repoVars, fs, crossDev, recipe, io, dropped,
                   syncState, syncErr, nextIdx, log>>

\* Plain::path on the upstream that was constructed
PathCall ==
    /\ syncState = "none"
    /\ pc[1] = "parsed"
    /\ IF PathPanics(ups[1].hash)
       THEN /\ pc' = [pc EXCEPT ![1] = "panicked"]
            /\ UNCHANGED result
       ELSE /\ pc' = [pc EXCEPT ![1] = "path"]
            /\ result' = [result EXCEPT ![1].path = PlainPath(ups[1])]
    /\ UNCHANGED <<gitVars, repoVars, fs, crossDev, recipe, ups, io, dropped,
                   syncState, syncErr, nextIdx, log>>

(***************************************************************************)
(* sync: parse every upstream, then fetch+share through buffer_unordered.  *)
(***************************************************************************)
ShortHash == <<1, 2, 3>>

RawHashes == DeclaredHashes \cup {ShortHash}

\* Upstream::from_recipe
FromRecipe(i) ==
    [uri |-> recipe[i].uri, hash |-> HashFromStr(recipe[i].hash).hash,
     rename |-> recipe[i].rename]

\* SyncBegin with the upstreams parsed one by one as their tasks are made:
\* only the first entry is parsed before the stream starts
SyncBegin_ParsesFirstOnly ==
    /\ syncState = "init"
    /\ IF ~HashFromStr(recipe[1].hash).ok
       THEN /\ syncState' = "err"
            /\ syncErr' = Failure("ParseHash", "parse")
            /\ UNCHANGED ups
       ELSE /\ syncState' = "running"
            /\ ups' = [i \in Tasks |-> FromRecipe(i)]
            /\ UNCHANGED syncErr
    /\ UNCHANGED <<gitVars, repoVars, fs, crossDev, recipe, pc, io, result, dropped, nextIdx, log>>

\* recipe.upstreams ... .map(Upstream::from_recipe).collect::<Result<_, _>>()?
\* and then env::ensure_dir_exists(&upstream_dir)?, before the stream is made
\* (directories are not part of fs, which holds the files)
SyncBegin ==
    /\ syncState = "init"
    /\ IF \E i \in Tasks : ~HashFromStr(recipe[i].hash).ok
       THEN /\ syncState' = "err"
            /\ syncErr' = Failure("ParseHash", "parse")
            /\ UNCHANGED ups
       ELSE \E made \in BOOLEAN :
               IF made
               THEN /\ syncState' = "running"
                    /\ ups' = [i \in Tasks |-> FromRecipe(i)]
                    /\ UNCHANGED syncErr
               ELSE /\ syncState' = "err"
                    /\ syncErr' = Failure("Io", "ensure_dir_exists")
                    /\ UNCHANGED ups
    /\ UNCHANGED <<gitVars, repoVars, fs, crossDev, recipe, pc, io, result, dropped, nextIdx, log>>

\* buffer_unordered takes the next future from stream::iter(&upstreams)
Admit ==
    /\ CanAdmit
    /\ pc' = [pc EXCEPT ![nextIdx] = "start"]
    /\ nextIdx' = nextIdx + 1
    /\ UNCHANGED <<gitVars, repoVars, fs, crossDev, recipe, ups, io, result, dropped,
                   syncState, syncErr, log>>

\* SyncReturn as soon as the stream has handed out its last future, without
\* the results of the futures still in the buffer
SyncReturn_StreamExhausted ==
    /\ syncState = "running"
    /\ nextIdx > NumUpstreams
    /\ syncState' = "ok"
    /\ UNCHANGED <<gitVars, repoVars, fs, crossDev, recipe, ups, pc, io, result, dropped,
                   syncErr, nextIdx, log>>

\* the stream is exhausted and every task returned Ok(()): sync returns Ok
SyncReturn ==
    /\ syncState = "running"
    /\ nextIdx > NumUpstreams
    /\ \A t \in Tasks : pc[t] = "done"
    /\ syncState' = "ok"
    /\ UNCHANGED <<gitVars, repoVars, fs, crossDev, recipe, ups, pc, io, result, dropped,
                   syncErr, nextIdx, log>>

(***************************************************************************)
(* Git::fetch.  A repository is [exists, refs, head, origin]: the refs it  *)
(* can resolve, the commit its tree is at, and where it was cloned from.   *)
(***************************************************************************)
RefIds == 1..NumRefs

\* the commit a ref resolves to
RefCommit(r) == 10 + r

GitUri == <<"git", "foo">>

GitName == Last(GitUri)

NoTree == [exists |-> FALSE, refs |-> {}, head |-> 0, origin |-> ""]

NoGitResult == [kind |-> "none", was_cached |-> FALSE, uri |-> <<>>, name |-> ""]

GitInstalled(cached) ==
    [kind |-> "Installed", was_cached |-> cached, uri |-> <<>>, name |-> GitName]

\* Git::run: the subprocess ends with success or a non-zero status, or it
\* cannot be spawned
Statuses == {"success", "nonzero", "spawn"}

RunError(st) ==
    IF st = "nonzero"
    THEN [kind |-> "GitFailed", was_cached |-> FALSE, uri |-> GitUri, name |-> ""]
    ELSE [kind |-> "Io", was_cached |-> FALSE, uri |-> <<>>, name |-> ""]

Ran(cmd, st) == Append(gitRuns, [cmd |-> cmd, status |-> st])

\* `self.run(..).await?` came back with an error: the call returns it
GitAborts(cmd, st) ==
    /\ gitPc' = "failed"
    /\ gitResult' = RunError(st)
    /\ gitRuns' = Ran(cmd, st)

\* the statuses a command can end with in the state it runs in
ResolvableStatuses(ref) ==
    IF ref \in finalTree.refs THEN Statuses ELSE Statuses \ {"success"}

\* DiscardAndClone with only the clone path removed: under staging the tree
\* at the final path stays
DiscardAndClone_KeepsFinal ==
    /\ gitPc' = "clone"
    /\ IF gitUp.staging
       THEN stagingTree' = NoTree /\ UNCHANGED finalTree
       ELSE finalTree' = NoTree /\ UNCHANGED stagingTree

\* remove_dir_all(&clone_path), and of the final path under staging; then
\* `git clone [--mirror] -- uri clone_path` is started
DiscardAndClone ==
    /\ gitPc' = "clone"
    /\ IF gitUp.staging
       THEN stagingTree' = NoTree /\ finalTree' = NoTree
       ELSE finalTree' = NoTree /\ UNCHANGED stagingTree

GitCall(ref, staging) ==
    /\ gitPc \in {"idle", "ok", "failed"}
    /\ gitCalls < MaxGitCalls
    /\ gitCalls' = gitCalls + 1
    /\ gitUp' = [ref_id |-> ref, staging |-> staging, cached |-> FALSE,
                 before |-> finalTree]
    /\ gitPc' = "begin"
    /\ gitRuns' = <<>>
    /\ gitResult' = NoGitResult
    /\ UNCHANGED <<plainVars, repoVars, remote, finalTree, stagingTree>>

\* ref_exists: `if !path.exists() { return Ok(false) }`, else `git fetch`
GitBegin ==
    /\ gitPc = "begin"
    /\ IF finalTree.exists
       THEN gitPc' = "fetch" /\ UNCHANGED <<finalTree, stagingTree>>
       ELSE DiscardAndClone
    /\ UNCHANGED <<plainVars, repoVars, remote, gitUp, gitRuns, gitResult, gitCalls>>

OriginRefs == IF finalTree.origin = "staging" THEN stagingTree.refs ELSE remote.refs

\* GitFetch with the status of `git fetch` ignored
GitFetch_IgnoresStatus(st) ==
    /\ gitPc = "fetch"
    /\ finalTree' = [finalTree EXCEPT !.refs = @ \cup OriginRefs]
    /\ gitPc' = "catfile"
    /\ gitRuns' = Ran("fetch", st)
    /\ UNCHANGED <<plainVars, repoVars, remote, stagingTree, gitUp, gitResult, gitCalls>>

\* ref_exists: self.run(&["fetch"], Some(path)).await?
GitFetch(st) ==
    /\ gitPc = "fetch"
    /\ IF st = "success"
       THEN /\ finalTree' = [finalTree EXCEPT !.refs = @ \cup OriginRefs]
            /\ gitPc' = "catfile"
            /\ gitRuns' = Ran("fetch", st)
            /\ UNCHANGED gitResult
       ELSE GitAborts("fetch", st) /\ UNCHANGED finalTree
    /\ UNCHANGED <<plainVars, repoVars, remote, stagingTree, gitUp, gitCalls>>

\* ref_exists: Ok(self.run(&["cat-file", "-e", ref_id], ..).await.is_ok()),
\* then the cache-hit branch of fetch or the discard and clone
GitCatFile(st) ==
    /\ gitPc = "catfile"
    /\ st \in ResolvableStatuses(gitUp.ref_id)
    /\ gitRuns' = Ran("cat-file", st)
    /\ IF st = "success"
       THEN /\ gitPc' = "reset"
            /\ gitUp' = [gitUp EXCEPT !.cached = TRUE]
            /\ UNCHANGED <<finalTree, stagingTree>>
       ELSE DiscardAndClone /\ UNCHANGED gitUp
    /\ UNCHANGED <<plainVars, repoVars, remote, gitResult, gitCalls>>

Cloned(from, origin) ==
    [exists |-> TRUE, refs |-> from.refs, head |-> from.head, origin |-> origin]

\* self.run(&["clone", ("--mirror",) "--", uri, clone_path], None).await?
GitClone(st) ==
    /\ gitPc = "clone"
    /\ IF st = "success"
       THEN /\ IF gitUp.staging
               THEN /\ stagingTree' = Cloned(remote, "uri")
                    /\ gitPc' = "clone2"
                    /\ UNCHANGED finalTree
               ELSE /\ finalTree' = Cloned(remote, "uri")
                    /\ gitPc' = "reset"
                    /\ UNCHANGED stagingTree
            /\ gitRuns' = Ran("clone", st)
            /\ UNCHANGED gitResult
       ELSE GitAborts("clone", st) /\ UNCHANGED <<finalTree, stagingTree>>
    /\ UNCHANGED <<plainVars, repoVars, remote, gitUp, gitCalls>>

\* staging: self.run(&["clone", "--", clone_path, final_path], None).await?
GitCloneFromStaging(st) ==
    /\ gitPc = "clone2"
    /\ IF st = "success"
       THEN /\ finalTree' = Cloned(stagingTree, "staging")
            /\ gitPc' = "reset"
            /\ gitRuns' = Ran("clone", st)
            /\ UNCHANGED gitResult
       ELSE GitAborts("clone", st) /\ UNCHANGED finalTree
    /\ UNCHANGED <<plainVars, repoVars, remote, stagingTree, gitUp, gitCalls>>

\* GitReset without running the reset
GitReset_Skipped(st) ==
    /\ gitPc = "reset"
    /\ st = "success"
    /\ gitPc' = "submodule"
    /\ gitRuns' = Ran("reset", st)
    /\ UNCHANGED <<plainVars, repoVars, remote, finalTree, stagingTree, gitUp, gitResult, gitCalls>>

\* reset_to_ref: self.run(&["reset", "--hard", ref_id], Some(path)).await?
GitReset(st) ==
    /\ gitPc = "reset"
    /\ st \in ResolvableStatuses(gitUp.ref_id)
    /\ IF st = "success"
       THEN /\ finalTree' = [finalTree EXCEPT !.head = RefCommit(gitUp.ref_id)]
            /\ gitPc' = "submodule"
            /\ gitRuns' = Ran("reset", st)
            /\ UNCHANGED gitResult
       ELSE GitAborts("reset", st) /\ UNCHANGED finalTree
    /\ UNCHANGED <<plainVars, repoVars, remote, stagingTree, gitUp, gitCalls>>

\* reset_to_ref: self.run(&["submodule", "update", ..], Some(path)).await?,
\* then fetch returns Ok(Installed::Git)
GitSubmodule(st) ==
    /\ gitPc = "submodule"
    /\ IF st = "success"
       THEN /\ gitPc' = "ok"
            /\ gitResult' = GitInstalled(gitUp.cached)
            /\ gitRuns' = Ran("submodule", st)
       ELSE GitAborts("submodule", st)
    /\ UNCHANGED <<plainVars, repoVars, remote, finalTree, stagingTree, gitUp, gitCalls>>

\* upstream development: the remote publishes a ref and moves its branch
RemotePublish(r) ==
    /\ r \notin remote.refs
    /\ remote' = [remote EXCEPT !.refs = @ \cup {r}, !.head = RefCommit(r)]
    /\ UNCHANGED <<plainVars, repoVars, finalTree, stagingTree, gitUp, gitPc, gitRuns,
                   gitResult, gitCalls>>

(***************************************************************************)
(* Repository manager and index synchroniser (manager.rs).  A repository's *)
(* meta database is a map from package id to package::Meta; the index file *)
(* at <repo dir>/stone.index is the sequence of results the payload stream *)
(* of stone::stream_payloads yields for it.                                *)
(***************************************************************************)
RepoIds == 1..NumRepos
PkgHashes == 1..NumPkgHashes

\* a field a Meta payload does not carry (Option::None)
NoField == 0

PkgName(h) == 100 + h

MetaPayload(n, h) == [kind |-> "meta", body |-> [name |-> n, hash |-> h]]
LayoutPayload == [kind |-> "layout", body |-> [name |-> NoField, hash |-> NoField]]
\* an item of the payload stream that is Err(stone::read::Error)
CorruptPayload == [kind |-> "corrupt", body |-> [name |-> NoField, hash |-> NoField]]

Payloads ==
    {MetaPayload(PkgName(h), h) : h \in PkgHashes}
        \cup {MetaPayload(PkgName(1), NoField), MetaPayload(NoField, 1),
              LayoutPayload, CorruptPayload}

\* package::Meta::from_stone_payload: a required field that is missing is
\* a MissingMetaError naming it; the hash is optional at this point
FromStonePayload(body) ==
    IF body.name = NoField
    THEN [ok |-> FALSE, tag |-> "Name", meta |-> body]
    ELSE [ok |-> TRUE, tag |-> "", meta |-> [name |-> body.name, hash |-> body.hash]]

PackageId(hash) == <<"package", hash>>

NoError == [kind |-> "", arg |-> <<>>]
MgrError(kind, arg) == [kind |-> kind, arg |-> arg]
MissingMetaField(tag) == MgrError("MissingMetaField", <<tag>>)
UnknownRepo(id) == MgrError("UnknownRepo", <<id>>)

NoMgrResult == [kind |-> "none", err |-> NoError]
MgrOk == [kind |-> "ok", err |-> NoError]
MgrErr(e) == [kind |-> "err", err |-> e]

MgrIdle == [op |-> "none", id |-> 0]

RepositoryOf(id) == [uri |-> <<"https", "repo", id, "stone.index">>]

\* meta::Database: wipe() removes every record
DbEmpty == [k \in {} |-> NoField]
DbWipe(s) == DbEmpty

\* meta::Database: batch_add(packages) stores every (id, meta) pair of the
\* batch in one transaction, replacing a record that has the same id
DbBatchAdd(s, packages) ==
    LET ids == {packages[i][1] : i \in DOMAIN packages}
        LastOf(k) == CHOOSE i \in DOMAIN packages :
                        /\ packages[i][1] = k
                        /\ \A j \in DOMAIN packages : packages[j][1] = k => j <= i
    IN  [k \in DOMAIN s \cup ids |->
            IF k \in ids THEN packages[LastOf(k)][2] ELSE s[k]]

ChunkAt_Unbounded(idx, pos) == SubSeq(idx, pos + 1, Len(idx))

\* .chunks(DB_BATCH_SIZE): the next DB_BATCH_SIZE items of the stream, fewer
\* at its end
ChunkAt(idx, pos) ==
    SubSeq(idx, pos + 1, IF pos + DB_BATCH_SIZE < Len(idx) THEN pos + DB_BATCH_SIZE
                         ELSE Len(idx))

IsMeta(p) == p.kind = "meta"

\* filter_map: the Meta payloads of a chunk, in order
MetasOf(chunk) == SelectSeq(chunk, IsMeta)

\* the (id, meta) pairs of a chunk all of whose payloads are well formed
PackagesOf(chunk) ==
    [i \in DOMAIN MetasOf(chunk) |->
        LET meta == FromStonePayload(MetasOf(chunk)[i].body).meta
        IN  <<PackageId(meta.hash), meta>>]

\* the error that ends the refresh at this chunk before batch_add is called:
\* an Err item makes the transposed chunk Err(ReadStone); otherwise the first
\* Meta payload that cannot be turned into (id, meta)
ChunkError(chunk) ==
    IF \E i \in DOMAIN chunk : chunk[i].kind = "corrupt"
    THEN MgrError("ReadStone", <<"payload">>)
    ELSE LET ms == MetasOf(chunk)
             Bad(i) == \/ ~FromStonePayload(ms[i].body).ok
                       \/ FromStonePayload(ms[i].body).meta.hash = NoField
             bad == {i \in DOMAIN ms : Bad(i)}
         IN  IF bad = {} THEN NoError
             ELSE LET i == CHOOSE j \in bad : \A k \in bad : j <= k
                      r == FromStonePayload(ms[i].body)
                  IN  IF ~r.ok THEN MissingMetaField(r.tag)
                      ELSE MissingMetaField("PackageHash")

\* the awaits of refresh_index
ActiveRpcs == {"mkdir", "fetch", "download", "wipe", "open", "batch"}

\* the refresh_index future of repository r exists and is polled
Running(r) == rpc[r] \in ActiveRpcs /\ r \notin cancelled

At(r, at) == rpc[r] = at /\ r \notin cancelled

\* refresh_index of repository r returns Err(e).  Manager::refresh returns
\* it; in refresh_all, try_join_all returns it as soon as it sees it and
\* the futures of the other repositories are dropped where they are

RefreshFails(r, e) ==
    /\ rpc' = [rpc EXCEPT ![r] = "failed"]
    /\ rerr' = [rerr EXCEPT ![r] = e]
    /\ cancelled' = IF mgr.op = "refresh_all"
                    THEN cancelled \cup {o \in RepoIds \ {r} : Running(o)}
                    ELSE cancelled
    /\ mgr' = MgrIdle
    /\ mgrResult' = MgrErr(e)

\* RefreshCall taken while another call on the Manager has not returned
RefreshCall_Reentrant(id) ==
    /\ mgrCalls < MaxMgrCalls
    /\ mgrCalls' = mgrCalls + 1
    /\ IF id \in DOMAIN repositories
       THEN /\ mgr' = [op |-> "refresh", id |-> id]
            /\ mgrResult' = NoMgrResult
            /\ rpc' = [rpc EXCEPT ![id] = "mkdir"]
            /\ rpos' = [rpos EXCEPT ![id] = 0]
            /\ rerr' = [rerr EXCEPT ![id] = NoError]
            /\ adds' = [adds EXCEPT ![id] = <<>>]
            /\ prevDb' = [prevDb EXCEPT ![id] = db[id]]
            /\ cancelled' = cancelled \ {id}
       ELSE /\ mgrResult' = MgrErr(UnknownRepo(id))
            /\ UNCHANGED <<mgr, rpc, rpos, rerr, adds, prevDb, cancelled>>
    /\ UNCHANGED <<plainVars, gitVars, repositories, configs, dirs, db, indexFile>>

RefreshCall_NoLookup(id) ==
    /\ mgr.op = "none"
    /\ mgrCalls < MaxMgrCalls
    /\ mgrCalls' = mgrCalls + 1
    /\ mgr' = [op |-> "refresh", id |-> id]
    /\ mgrResult' = NoMgrResult
    /\ rpc' = [rpc EXCEPT ![id] = "mkdir"]
    /\ rpos' = [rpos EXCEPT ![id] = 0]
    /\ rerr' = [rerr EXCEPT ![id] = NoError]
    /\ adds' = [adds EXCEPT ![id] = <<>>]
    /\ prevDb' = [prevDb EXCEPT ![id] = db[id]]
    /\ cancelled' = cancelled \ {id}
    /\ UNCHANGED <<plainVars, gitVars, repositories, configs, dirs, db, indexFile>>

\* Manager::refresh
RefreshCall(id) ==
    /\ mgr.op = "none"
    /\ mgrCalls < MaxMgrCalls
    /\ mgrCalls' = mgrCalls + 1
    /\ IF id \in DOMAIN repositories
       THEN /\ mgr' = [op |-> "refresh", id |-> id]
            /\ mgrResult' = NoMgrResult
            /\ rpc' = [rpc EXCEPT ![id] = "mkdir"]
            /\ rpos' = [rpos EXCEPT ![id] = 0]
            /\ rerr' = [rerr EXCEPT ![id] = NoError]
            /\ adds' = [adds EXCEPT ![id] = <<>>]
            /\ prevDb' = [prevDb EXCEPT ![id] = db[id]]
            /\ cancelled' = cancelled \ {id}
       ELSE /\ mgrResult' = MgrErr(UnknownRepo(id))
            /\ UNCHANGED <<mgr, rpc, rpos, rerr, adds, prevDb, cancelled>>
    /\ UNCHANGED <<plainVars, gitVars, repositories, configs, dirs, db, indexFile>>

\* Manager::refresh_all: one refresh_index future per configured repository,
\* all handed to try_join_all
RefreshAllCall ==
    /\ mgr.op = "none"
    /\ mgrCalls < MaxMgrCalls
    /\ mgrCalls' = mgrCalls + 1
    /\ LET S == DOMAIN repositories
       IN  /\ rpc' = [r \in RepoIds |-> IF r \in S THEN "mkdir" ELSE rpc[r]]
           /\ rpos' = [r \in RepoIds |-> IF r \in S THEN 0 ELSE rpos[r]]
           /\ rerr' = [r \in RepoIds |-> IF r \in S THEN NoError ELSE rerr[r]]
           /\ adds' = [r \in RepoIds |-> IF r \in S THEN <<>> ELSE adds[r]]
           /\ prevDb' = [r \in RepoIds |-> IF r \in S THEN db[r] ELSE prevDb[r]]
           /\ cancelled' = cancelled \ S
           /\ IF S = {}
              THEN mgr' = MgrIdle /\ mgrResult' = MgrOk
              ELSE mgr' = [op |-> "refresh_all", id |-> 0] /\ mgrResult' = NoMgrResult
    /\ UNCHANGED <<plainVars, gitVars, repositories, configs, dirs, db, indexFile>>

CreateDirOk_WipesFirst(r) ==
    /\ At(r, "mkdir")
    /\ dirs' = dirs \cup {r}
    /\ db' = [db EXCEPT ![r] = DbWipe(@)]
    /\ rpc' = [rpc EXCEPT ![r] = "fetch"]
    /\ UNCHANGED <<plainVars, gitVars, repositories, configs, cancelled, indexFile, rpos, rerr,
                   adds, prevDb, mgr, mgrResult, mgrCalls>>

RemoveCall_KeepsEntry(id) ==
    /\ mgr.op = "none"
    /\ mgrCalls < MaxMgrCalls
    /\ mgrCalls' = mgrCalls + 1
    /\ mgr' = [op |-> "remove", id |-> id]
    /\ mgrResult' = NoMgrResult
    /\ UNCHANGED <<plainVars, gitVars, repositories, configs, dirs, cancelled, db, indexFile,
                   rpc, rpos, rerr, adds, prevDb>>

\* Manager::remove_repository: the entry (with its db handle and what is
\* known of its last refresh) leaves the map, then the directory is removed
RemoveCall(id) ==
    /\ mgr.op = "none"
    /\ mgrCalls < MaxMgrCalls
    /\ mgrCalls' = mgrCalls + 1
    /\ repositories' = [k \in DOMAIN repositories \ {id} |-> repositories[k]]
    /\ mgr' = [op |-> "remove", id |-> id]
    /\ mgrResult' = NoMgrResult
    /\ rpc' = [rpc EXCEPT ![id] = "idle"]
    /\ rpos' = [rpos EXCEPT ![id] = 0]
    /\ rerr' = [rerr EXCEPT ![id] = NoError]
    /\ adds' = [adds EXCEPT ![id] = <<>>]
    /\ prevDb' = [prevDb EXCEPT ![id] = DbEmpty]
    /\ cancelled' = cancelled \ {id}
    /\ UNCHANGED <<plainVars, gitVars, configs, dirs, db, indexFile>>

\* fs::remove_dir_all(path) succeeds: index file and db are gone with it
RemoveDirOk ==
    /\ mgr.op = "remove"
    /\ mgr.id \in dirs
    /\ dirs' = dirs \ {mgr.id}
    /\ db' = [db EXCEPT ![mgr.id] = DbEmpty]
    /\ indexFile' = [indexFile EXCEPT ![mgr.id] = <<>>]
    /\ mgr' = MgrIdle
    /\ mgrResult' = MgrOk
    /\ UNCHANGED <<plainVars, gitVars, repositories, configs, cancelled, rpc, rpos, rerr,
                   adds, prevDb, mgrCalls>>

\* fs::remove_dir_all(path) fails (there is no such directory, or an I/O
\* error that leaves it): Error::RemoveDir
RemoveDirErr ==
    /\ mgr.op = "remove"
    /\ mgr' = MgrIdle
    /\ mgrResult' = MgrErr(MgrError("RemoveDir", <<>>))
    /\ UNCHANGED <<plainVars, gitVars, repositories, configs, dirs, cancelled, db, indexFile,
                   rpc, rpos, rerr, adds, prevDb, mgrCalls>>

\* the repositories a caller can give for an id
RepositoriesFor(id) == {RepositoryOf(id), [uri |-> <<"https", "mirror", id, "stone.index">>]}

AddOps == {"add_save", "add_mkdir", "add_open"}

\* the entry add_repository inserts
Inserted(reps, id, repository) ==
    [k \in DOMAIN reps \cup {id} |-> IF k = id THEN repository ELSE reps[k]]

\* AddCall with the entry inserted before the config is saved
AddCall_InsertsFirst(id, repository) ==
    /\ mgr.op = "none"
    /\ mgrCalls < MaxMgrCalls
    /\ mgrCalls' = mgrCalls + 1
    /\ repositories' = Inserted(repositories, id, repository)
    /\ mgr' = [op |-> "add_save", id |-> id, repository |-> repository]
    /\ mgrResult' = NoMgrResult
    /\ UNCHANGED <<plainVars, gitVars, configs, dirs, cancelled, db, indexFile, rpc, rpos,
                   rerr, adds, prevDb>>

\* Manager::add_repository(id, repository) is called
AddCall(id, repository) ==
    /\ mgr.op = "none"
    /\ mgrCalls < MaxMgrCalls
    /\ mgrCalls' = mgrCalls + 1
    /\ mgr' = [op |-> "add_save", id |-> id, repository |-> repository]
    /\ mgrResult' = NoMgrResult
    /\ UNCHANGED <<plainVars, gitVars, repositories, configs, dirs, cancelled, db, indexFile, rpc,
                   rpos, rerr, adds, prevDb>>

\* config::save(&root, &id, &map) writes the config of the one repository
SaveConfigOk ==
    /\ mgr.op = "add_save"
    /\ configs' = Inserted(configs, mgr.id, mgr.repository)
    /\ mgr' = [mgr EXCEPT !.op = "add_mkdir"]
    /\ UNCHANGED <<plainVars, gitVars, repositories, dirs, cancelled, db, indexFile, rpc, rpos,
                   rerr, adds, prevDb, mgrResult, mgrCalls>>

\* config::save fails: Error::SaveConfig
SaveConfigErr ==
    /\ mgr.op = "add_save"
    /\ mgr' = MgrIdle
    /\ mgrResult' = MgrErr(MgrError("SaveConfig", <<>>))
    /\ UNCHANGED <<plainVars, gitVars, repositories, configs, dirs, cancelled, db, indexFile, rpc,
                   rpos, rerr, adds, prevDb, mgrCalls>>

\* open_meta_db: fs::create_dir_all(&dir)
OpenCreateDirOk ==
    /\ mgr.op = "add_mkdir"
    /\ dirs' = dirs \cup {mgr.id}
    /\ mgr' = [mgr EXCEPT !.op = "add_open"]
    /\ UNCHANGED <<plainVars, gitVars, repositories, configs, cancelled, db, indexFile, rpc, rpos,
                   rerr, adds, prevDb, mgrResult, mgrCalls>>

OpenCreateDirErr ==
    /\ mgr.op = "add_mkdir"
    /\ mgr' = MgrIdle
    /\ mgrResult' = MgrErr(MgrError("CreateDir", <<"open_meta_db">>))
    /\ UNCHANGED <<plainVars, gitVars, repositories, configs, dirs, cancelled, db, indexFile, rpc,
                   rpos, rerr, adds, prevDb, mgrCalls>>

\* open_meta_db: meta::Database::new opens the db of the directory, with
\* the records it holds; then self.repositories.insert and Ok(())
OpenDbOk ==
    /\ mgr.op = "add_open"
    /\ repositories' = Inserted(repositories, mgr.id, mgr.repository)
    /\ mgr' = MgrIdle
    /\ mgrResult' = MgrOk
    /\ UNCHANGED <<plainVars, gitVars, configs, dirs, cancelled, db, indexFile, rpc, rpos,
                   rerr, adds, prevDb, mgrCalls>>

\* meta::Database::new fails: Error::Database
OpenDbErr ==
    /\ mgr.op = "add_open"
    /\ mgr' = MgrIdle
    /\ mgrResult' = MgrErr(MgrError("Database", <<"new">>))
    /\ UNCHANGED <<plainVars, gitVars, repositories, configs, dirs, cancelled, db, indexFile, rpc,
                   rpos, rerr, adds, prevDb, mgrCalls>>

\* add_repository, one await at a time
AddStep ==
    \/ SaveConfigOk
    \/ SaveConfigErr
    \/ OpenCreateDirOk
    \/ OpenCreateDirErr
    \/ OpenDbOk
    \/ OpenDbErr

\* fs::create_dir_all(&out_dir)
CreateDirOk(r) ==
    /\ At(r, "mkdir")
    /\ dirs' = dirs \cup {r}
    /\ rpc' = [rpc EXCEPT ![r] = "fetch"]
    /\ UNCHANGED <<plainVars, gitVars, repositories, configs, cancelled, db, indexFile, rpos, rerr,
                   adds, prevDb, mgr, mgrResult, mgrCalls>>

CreateDirErr(r) ==
    /\ At(r, "mkdir")
    /\ RefreshFails(r, MgrError("CreateDir", <<>>))
    /\ UNCHANGED <<plainVars, gitVars, repositories, configs, dirs, db, indexFile, rpos, adds,
                   prevDb, mgrCalls>>

\* repository::fetch_index(uri, &out_path): the request is answered and the
\* file at out_path is created, losing what it held (overwrite in place)
FetchIndexBegin(r) ==
    /\ At(r, "fetch")
    /\ indexFile' = [indexFile EXCEPT ![r] = <<>>]
    /\ rpc' = [rpc EXCEPT ![r] = "download"]
    /\ UNCHANGED <<plainVars, gitVars, repositories, configs, dirs, cancelled, db, rpos, rerr, adds,
                   prevDb, mgr, mgrResult, mgrCalls>>

\* fetch_index: the next part of the index the remote serves is written
FetchIndexChunk(r, p) ==
    /\ At(r, "download")
    /\ Len(indexFile[r]) < MaxIndexLen
    /\ indexFile' = [indexFile EXCEPT ![r] = Append(@, p)]
    /\ UNCHANGED <<plainVars, gitVars, repositories, configs, dirs, cancelled, db, rpc, rpos, rerr, adds,
                   prevDb, mgr, mgrResult, mgrCalls>>

\* fetch_index returns Ok: the whole index is at out_path
FetchIndexOk(r) ==
    /\ At(r, "download")
    /\ rpc' = [rpc EXCEPT ![r] = "wipe"]
    /\ UNCHANGED <<plainVars, gitVars, repositories, configs, dirs, cancelled, db, indexFile, rpos, rerr,
                   adds, prevDb, mgr, mgrResult, mgrCalls>>

\* fetch_index fails, before the file is created or part way through
FetchIndexErr(r) ==
    /\ (At(r, "fetch") \/ At(r, "download"))
    /\ RefreshFails(r, MgrError("FetchIndex", <<>>))
    /\ UNCHANGED <<plainVars, gitVars, repositories, configs, dirs, db, indexFile, rpos, adds,
                   prevDb, mgrCalls>>

WipeOk_NoWipe(r) ==
    /\ At(r, "wipe")
    /\ rpc' = [rpc EXCEPT ![r] = "open"]
    /\ UNCHANGED <<plainVars, gitVars, repositories, configs, dirs, cancelled, db, indexFile, rpos, rerr,
                   adds, prevDb, mgr, mgrResult, mgrCalls>>

\* state.db.wipe()
WipeOk(r) ==
    /\ At(r, "wipe")
    /\ db' = [db EXCEPT ![r] = DbWipe(@)]
    /\ rpc' = [rpc EXCEPT ![r] = "open"]
    /\ UNCHANGED <<plainVars, gitVars, repositories, configs, dirs, cancelled, indexFile, rpos, rerr,
                   adds, prevDb, mgr, mgrResult, mgrCalls>>

WipeErr(r) ==
    /\ At(r, "wipe")
    /\ RefreshFails(r, MgrError("Database", <<"wipe">>))
    /\ UNCHANGED <<plainVars, gitVars, repositories, configs, dirs, db, indexFile, rpos, adds,
                   prevDb, mgrCalls>>

\* stone::stream_payloads(&out_path)
StreamPayloadsOk(r) ==
    /\ At(r, "open")
    /\ rpc' = [rpc EXCEPT ![r] = "batch"]
    /\ UNCHANGED <<plainVars, gitVars, repositories, configs, dirs, cancelled, db, indexFile, rpos, rerr,
                   adds, prevDb, mgr, mgrResult, mgrCalls>>

StreamPayloadsErr(r) ==
    /\ At(r, "open")
    /\ RefreshFails(r, MgrError("ReadStone", <<"stream_payloads">>))
    /\ UNCHANGED <<plainVars, gitVars, repositories, configs, dirs, db, indexFile, rpos, adds,
                   prevDb, mgrCalls>>

\* the (id, meta) pairs of the well formed Meta payloads of a chunk
GoodPackagesOf(chunk) ==
    LET good == {i \in DOMAIN chunk :
                    /\ chunk[i].kind = "meta"
                    /\ chunk[i].body.name # NoField
                    /\ chunk[i].body.hash # NoField}
        IsGood(p) == \E i \in good : chunk[i] = p
    IN  PackagesOf(SelectSeq(chunk, IsGood))

BatchRejected_InsertsGood(r) ==
    /\ At(r, "batch")
    /\ rpos[r] < Len(indexFile[r])
    /\ ChunkError(ChunkAt(indexFile[r], rpos[r])) # NoError
    /\ db' = [db EXCEPT ![r] = DbBatchAdd(@, GoodPackagesOf(ChunkAt(indexFile[r], rpos[r])))]
    /\ RefreshFails(r, ChunkError(ChunkAt(indexFile[r], rpos[r])))
    /\ UNCHANGED <<plainVars, gitVars, repositories, configs, dirs, indexFile, rpos, adds,
                   prevDb, mgrCalls>>

\* one turn of try_for_each whose chunk does not reach batch_add
BatchRejected(r) ==
    /\ At(r, "batch")
    /\ rpos[r] < Len(indexFile[r])
    /\ ChunkError(ChunkAt(indexFile[r], rpos[r])) # NoError
    /\ RefreshFails(r, ChunkError(ChunkAt(indexFile[r], rpos[r])))
    /\ UNCHANGED <<plainVars, gitVars, repositories, configs, dirs, db, indexFile, rpos, adds,
                   prevDb, mgrCalls>>

\* one turn of try_for_each: the chunk's packages are added in one batch
BatchAddOk(r) ==
    /\ At(r, "batch")
    /\ rpos[r] < Len(indexFile[r])
    /\ LET chunk == ChunkAt(indexFile[r], rpos[r])
       IN  /\ ChunkError(chunk) = NoError
           /\ db' = [db EXCEPT ![r] = DbBatchAdd(@, PackagesOf(chunk))]
           /\ adds' = [adds EXCEPT ![r] = Append(@, [packages |-> PackagesOf(chunk),
                                                     ok |-> TRUE])]
           /\ rpos' = [rpos EXCEPT ![r] = @ + Len(chunk)]
    /\ UNCHANGED <<plainVars, gitVars, repositories, configs, dirs, cancelled, indexFile, rpc, rerr,
                   prevDb, mgr, mgrResult, mgrCalls>>

\* one turn of try_for_each whose batch_add fails: nothing of it is stored
BatchAddErr(r) ==
    /\ At(r, "batch")
    /\ rpos[r] < Len(indexFile[r])
    /\ LET chunk == ChunkAt(indexFile[r], rpos[r])
       IN  /\ ChunkError(chunk) = NoError
           /\ adds' = [adds EXCEPT ![r] = Append(@, [packages |-> PackagesOf(chunk),
                                                     ok |-> FALSE])]
    /\ RefreshFails(r, MgrError("Database", <<"batch_add">>))
    /\ UNCHANGED <<plainVars, gitVars, repositories, configs, dirs, db, indexFile, rpos,
                   prevDb, mgrCalls>>

\* the payload stream is exhausted: refresh_index returns Ok(()); the call
\* returns Ok when no other refresh_index of it is still running
PayloadsEnd(r) ==
    /\ At(r, "batch")
    /\ rpos[r] = Len(indexFile[r])
    /\ rpc' = [rpc EXCEPT ![r] = "done"]
    /\ IF mgr.op = "refresh_all" /\ \E o \in RepoIds \ {r} : Running(o)
       THEN UNCHANGED <<mgr, mgrResult>>
       ELSE mgr' = MgrIdle /\ mgrResult' = MgrOk
    /\ UNCHANGED <<plainVars, gitVars, repositories, configs, dirs, cancelled, db, indexFile, rpos, rerr,
                   adds, prevDb, mgrCalls>>

\* refresh_index, one await at a time; ps: the payloads an index is made of
RefreshStep(r, ps) ==
    \/ CreateDirOk(r)
    \/ CreateDirErr(r)
    \/ FetchIndexBegin(r)
    \/ \E p \in ps : FetchIndexChunk(r, p)
    \/ FetchIndexOk(r)
    \/ FetchIndexErr(r)
    \/ WipeOk(r)
    \/ WipeErr(r)
    \/ StreamPayloadsOk(r)
    \/ StreamPayloadsErr(r)
    \/ BatchRejected(r)
    \/ BatchAddOk(r)
    \/ BatchAddErr(r)
    \/ PayloadsEnd(r)

(***************************************************************************)
(* The specifications.                                                     *)
(***************************************************************************)
ManagerIdle ==
    /\ db = [r \in RepoIds |-> DbEmpty]
    /\ indexFile = [r \in RepoIds |-> <<>>]
    /\ rpc = [r \in RepoIds |-> "idle"]
    /\ rpos = [r \in RepoIds |-> 0]
    /\ rerr = [r \in RepoIds |-> NoError]
    /\ adds = [r \in RepoIds |-> <<>>]
    /\ prevDb = [r \in RepoIds |-> DbEmpty]
    /\ mgr = MgrIdle
    /\ mgrResult = NoMgrResult
    /\ mgrCalls = 0
    /\ cancelled = {}

\* Manager::new: every configured repository has its directory and its db
Configured(S) ==
    /\ repositories = [id \in S |-> RepositoryOf(id)]
    /\ configs = [id \in S |-> RepositoryOf(id)]
    /\ dirs = S

NoRepositories == Configured({})

PlainIdle ==
    /\ fs = {}
    /\ crossDev = FALSE
    /\ recipe = <<>>
    /\ ups = [t \in Tasks |-> NoUpstream]
    /\ pc = [t \in Tasks |-> "idle"]
    /\ io = [t \in Tasks |-> IoInit]
    /\ result = [t \in Tasks |-> NoResult]
    /\ dropped = {}
    /\ syncState = "none"
    /\ syncErr = NoResult
    /\ nextIdx = 1
    /\ log = <<>>

GitIdle ==
    /\ finalTree = NoTree
    /\ stagingTree = NoTree
    /\ gitUp = [ref_id |-> 1, staging |-> FALSE, cached |-> FALSE, before |-> NoTree]
    /\ gitPc = "idle"
    /\ gitRuns = <<>>
    /\ gitResult = NoGitResult
    /\ gitCalls = 0

OthersIdleOfGit ==
    /\ remote = [exists |-> TRUE, refs |-> {1}, head |-> RefCommit(1), origin |-> ""]
    /\ GitIdle

InitPlain == PlainIdle /\ OthersIdleOfGit /\ NoRepositories /\ ManagerIdle

NextPlain ==
    \/ \E u \in PlainUpstreams : PlainCall(u)
    \/ FetchStep(1)

SpecPlain == InitPlain /\ [][NextPlain]_vars

\* one recipe entry with any declared hash string, parsed and then asked
\* for its cache path
InitHash ==
    /\ fs = {}
    /\ crossDev = FALSE
    /\ \E h \in HashStrings : recipe = <<[uri |-> UriOf(1), hash |-> h, rename |-> ""]>>
    /\ ups = [t \in Tasks |-> NoUpstream]
    /\ pc = [t \in Tasks |-> "idle"]
    /\ io = [t \in Tasks |-> IoInit]
    /\ result = [t \in Tasks |-> NoResult]
    /\ dropped = {}
    /\ syncState = "none"
    /\ syncErr = NoResult
    /\ nextIdx = 1
    /\ log = <<>>
    /\ OthersIdleOfGit
    /\ NoRepositories
    /\ ManagerIdle

NextHash ==
    \/ FromRecipeCall
    \/ PathCall

SpecHash == InitHash /\ [][NextHash]_vars

\* fetch calls and share calls, one after the other, cache and upstream
\* directory on one filesystem or on two
InitShare ==
    /\ fs = {}
    /\ crossDev \in BOOLEAN
    /\ recipe = <<>>
    /\ ups = [t \in Tasks |-> NoUpstream]
    /\ pc = [t \in Tasks |-> "idle"]
    /\ io = [t \in Tasks |-> IoInit]
    /\ result = [t \in Tasks |-> NoResult]
    /\ dropped = {}
    /\ syncState = "none"
    /\ syncErr = NoResult
    /\ nextIdx = 1
    /\ log = <<>>
    /\ OthersIdleOfGit
    /\ NoRepositories
    /\ ManagerIdle

NextShare ==
    \/ \E u \in PlainUpstreams : PlainCall(u)
    \/ FetchStep(1)
    \/ ShareCall
    \/ Copy(1)

SpecShare == InitShare /\ [][NextShare]_vars

InitSync ==
    /\ fs = {}
    /\ crossDev \in BOOLEAN
    /\ recipe \in {[i \in Tasks |-> [uri |-> UriOf(i), hash |-> hs[i], rename |-> ""]] :
                      hs \in [Tasks -> RawHashes]}
    /\ ups = [t \in Tasks |-> NoUpstream]
    /\ pc = [t \in Tasks |-> "idle"]
    /\ io = [t \in Tasks |-> IoInit]
    /\ result = [t \in Tasks |-> NoResult]
    /\ dropped = {}
    /\ syncState = "init"
    /\ syncErr = NoResult
    /\ nextIdx = 1
    /\ log = <<>>
    /\ OthersIdleOfGit
    /\ NoRepositories
    /\ ManagerIdle

NextSync ==
    \/ SyncBegin
    \/ Admit
    \/ \E t \in Tasks : FetchStep(t) \/ Copy(t)
    \/ SyncReturn

SpecSync == InitSync /\ [][NextSync]_vars

InitGit ==
    /\ PlainIdle
    /\ \E r \in RefIds : remote = [exists |-> TRUE, refs |-> {r},
                                  head |-> RefCommit(r), origin |-> ""]
    /\ GitIdle
    /\ NoRepositories
    /\ ManagerIdle

NextGit ==
    \/ \E r \in RefIds, sg \in BOOLEAN : GitCall(r, sg)
    \/ GitBegin
    \/ \E st \in Statuses : GitFetch(st)
    \/ \E st \in Statuses : GitCatFile(st)
    \/ \E st \in Statuses : GitClone(st)
    \/ \E st \in Statuses : GitCloneFromStaging(st)
    \/ \E st \in Statuses : GitReset(st)
    \/ \E st \in Statuses : GitSubmodule(st)
    \/ \E r \in RefIds : RemotePublish(r)

SpecGit == InitGit /\ [][NextGit]_vars

\* a Manager constructed over one configured repository, its meta database
\* empty; refresh and remove_repository calls one after the other, for
\* configured and other ids
InitRefresh ==
    /\ PlainIdle
    /\ OthersIdleOfGit
    /\ Configured({1})
    /\ ManagerIdle

NextRefresh ==
    \/ \E id \in RepoIds : RefreshCall(id)
    \/ \E id \in RepoIds : RemoveCall(id)
    \/ RemoveDirOk
    \/ RemoveDirErr
    \/ \E r \in RepoIds : RefreshStep(r, Payloads)

SpecRefresh == InitRefresh /\ [][NextRefresh]_vars

\* the parts of the indices the remotes serve in SpecManager
ManagerPayloads == {MetaPayload(PkgName(1), 1), CorruptPayload}

\* a Manager constructed over all repositories; refresh_all calls
InitManager ==
    /\ PlainIdle
    /\ OthersIdleOfGit
    /\ Configured(RepoIds)
    /\ ManagerIdle

NextManager ==
    \/ RefreshAllCall
    \/ \E r \in RepoIds : RefreshStep(r, ManagerPayloads)

SpecManager == InitManager /\ [][NextManager]_vars

\* the parts of the index a repository's remote serves in SpecCalls: well
\* formed packages at the odd ids, corrupt payloads at the even ones
ServedBy(r) == IF r % 2 = 1 THEN {MetaPayload(PkgName(1), 1)} ELSE {CorruptPayload}

\* a Manager constructed over one configured repository; add_repository,
\* remove_repository, refresh and refresh_all calls in any order
InitCalls ==
    /\ PlainIdle
    /\ OthersIdleOfGit
    /\ Configured({1})
    /\ ManagerIdle

NextCalls ==
    \/ \E id \in RepoIds : \E repository \in RepositoriesFor(id) : AddCall(id, repository)
    \/ AddStep
    \/ \E id \in RepoIds : RemoveCall(id)
    \/ RemoveDirOk
    \/ RemoveDirErr
    \/ \E id \in RepoIds : RefreshCall(id)
    \/ RefreshAllCall
    \/ \E r \in RepoIds : RefreshStep(r, ServedBy(r))

SpecCalls == InitCalls /\ [][NextCalls]_vars

(***************************************************************************)
(* Properties of Plain::fetch (SpecPlain).                                 *)
(***************************************************************************)
CachePath(n) == n[1] = "fetched"

\* C1: whenever a file exists at the cache path of hash h and no fetch has
\* it open for writing, the SHA-256 of its content equals h.
C1_CacheHoldsOnlyVerified ==
    \A i \in fs : \A n \in i.links :
        (CachePath(n) /\ i.opens = {}) => Sha256Hex(i.data) = n[4]

\* the call of task t returned after its whole body was received and flushed
Downloaded(t) ==
    /\ pc[t] \in {"fetched", "failed"}
    /\ ~io[t].existed
    /\ io[t].body # <<>> /\ io[t].pos = Len(io[t].body)
    /\ result[t].at # "flush"

ColdSuccess(e) == ~e.existed /\ e.kind = "Installed"

\* C3: of two fetches in a row with the same hash, the first starting without
\* a cache file and succeeding, the first makes one request and returns
\* was_cached = false, the second makes none and returns was_cached = true
\* with the same path, and the cache file is the same after both.
C3_SecondFetchIsCacheHit ==
    \A k \in 1..(Len(log) - 1) :
        (ColdSuccess(log[k]) /\ log[k + 1].hash = log[k].hash) =>
            /\ log[k].reqs = 1 /\ ~log[k].was_cached
            /\ log[k + 1].kind = "Installed"
            /\ log[k + 1].was_cached /\ log[k + 1].reqs = 0
            /\ log[k + 1].path = log[k].path
            /\ log[k + 1].content = log[k].content
            /\ log[k].content = <<"file", CHOOSE b \in Bodies : Sha256Hex(b) = log[k].hash>>

C3_Witness ==
    /\ Len(log) >= 2
    /\ ColdSuccess(log[1]) /\ log[2].hash = log[1].hash
    /\ log[2].was_cached

(***************************************************************************)
(* Properties of sync (SpecSync).                                          *)
(***************************************************************************)
\* C4: at most MAX_NETWORK_CONCURRENCY tasks are started and not completed.
C4_AtMostKInFlight == InFlightCount <= MAX_NETWORK_CONCURRENCY

C4_Witness ==
    /\ InFlightCount = MAX_NETWORK_CONCURRENCY
    /\ nextIdx <= NumUpstreams
    /\ \E t \in Tasks : pc[t] \in {"stream", "copy"}

\* C5: as soon as a task has failed, sync has returned that task's error, and
\* from then on no upstream that was not started is started.
C5_FailFastIntake ==
    [][/\ \A t \in Tasks : pc'[t] = "failed" =>
              syncState' = "err" /\ syncErr' = result'[t]
       /\ syncState = "err" =>
              /\ nextIdx' = nextIdx
              /\ \A t \in Tasks : pc[t] = "idle" => pc'[t] = "idle"]_vars

C5_Witness ==
    /\ syncState = "err"
    /\ pc[2] = "failed" /\ syncErr = result[2]
    /\ \E t \in Tasks : pc[t] = "idle"
    /\ nextIdx <= NumUpstreams

Malformed(i) == ~HashFromStr(recipe[i].hash).ok

C18_ParseBeforeAnyTask ==
    (\E i \in Tasks : Malformed(i)) =>
        /\ syncState \in {"init", "err"}
        /\ syncState = "err" => syncErr = Failure("ParseHash", "parse")
        /\ \A t \in Tasks : pc[t] = "idle" /\ io[t].reqs = 0
        /\ nextIdx = 1
        /\ fs = {}
        /\ gitRuns = <<>>

\* the parse error is returned for a list whose first entries are well formed
C18_Witness ==
    /\ syncState = "err"
    /\ syncErr = Failure("ParseHash", "parse")
    /\ ~Malformed(1) /\ ~Malformed(2) /\ Malformed(NumUpstreams)

\* C19: sync returns Ok only when every upstream of the list has been fetched
\* and shared into the upstream directory, and once the fetch or the share
\* of an upstream has failed sync has returned an error.
Shared(t) ==
    /\ pc[t] = "done"
    /\ result[t].kind = "Installed"
    /\ FsExists(fs, ShareTarget(ups[t]))

C19_OkOnlyIfAllShared ==
    /\ syncState = "ok" => \A t \in Tasks : Shared(t)
    /\ (\E t \in Tasks : pc[t] = "failed") =>
           /\ syncState = "err"
           /\ \E t \in Tasks : pc[t] = "failed" /\ syncErr = result[t]

\* sync has returned Ok, one upstream having been downloaded and linked and
\* another taken from the cache and copied
C19_Witness ==
    /\ syncState = "ok"
    /\ \A t \in Tasks : Shared(t)
    /\ \E t \in Tasks : ~result[t].was_cached
    /\ \E t \in Tasks : result[t].was_cached

\* C7: a fetch that returns success returns a cache path whose content, when
\* it is returned and shared, is the whole download with the declared digest,
\* and what a task has shared is that content.
Verified(f, n, h) == FsExists(f, n) /\ Sha256Hex(FsData(f, n)) = h

C7_RaceIsHarmless ==
    [][\A t \in Tasks :
          /\ (pc[t] \notin {"copy", "done"} /\ pc'[t] \in {"copy", "done"}) =>
                 Verified(fs', PlainPath(ups[t]), ups[t].hash)
          /\ pc'[t] = "done" =>
                 Verified(fs', ShareTarget(ups[t]), ups[t].hash)]_vars

(***************************************************************************)
(* Properties of Git::fetch (SpecGit).                                     *)
(***************************************************************************)
\* C8: whenever Git::fetch has returned success, the tree at the final path
\* is at the commit the pinned ref resolves to, and the call's last two git
\* commands were the successful hard reset to it and the submodule update.
C8_GitRefPinned ==
    gitPc = "ok" =>
        /\ finalTree.exists
        /\ finalTree.head = RefCommit(gitUp.ref_id)
        /\ Len(gitRuns) >= 2
        /\ gitRuns[Len(gitRuns) - 1] = [cmd |-> "reset", status |-> "success"]
        /\ gitRuns[Len(gitRuns)].cmd = "submodule"

C8_Witness ==
    /\ gitPc = "ok"
    /\ gitResult.was_cached
    /\ gitUp.before.exists
    /\ gitUp.before.head # RefCommit(gitUp.ref_id)

NonZero(k) == gitRuns[k].status = "nonzero"

AbortedAt(k) ==
    /\ k = Len(gitRuns)
    /\ gitPc = "failed"
    /\ gitResult.kind = "GitFailed" /\ gitResult.uri = GitUri

\* C9 as claimed: every git subprocess that returns a non-zero status is the
\* last one the call runs, and the call returns GitFailed with the URI.
C9_EveryNonZeroAborts ==
    \A k \in 1..Len(gitRuns) : NonZero(k) => AbortedAt(k)

\* C9 amended: that holds of fetch, clone, reset --hard and submodule update;
\* a non-zero `cat-file -e` is taken as "the ref is not there" and the call
\* goes on to discard the tree and clone.
C9_NonZeroAbortsButCatFile ==
    \A k \in 1..Len(gitRuns) :
        NonZero(k) =>
            IF gitRuns[k].cmd = "cat-file"
            THEN IF k = Len(gitRuns) THEN gitPc = "clone"
                 ELSE gitRuns[k + 1].cmd = "clone"
            ELSE AbortedAt(k)

C9_Witness ==
    /\ gitPc = "failed" /\ gitResult.kind = "GitFailed"
    /\ \E k \in 1..Len(gitRuns) : gitRuns[k].cmd = "cat-file" /\ NonZero(k)
    /\ gitRuns[Len(gitRuns)].cmd = "reset"

\* the git commands of the call so far, by name
GitCmds == [k \in 1..Len(gitRuns) |-> gitRuns[k].cmd]

\* the call found a tree at the final path, its `git fetch` succeeded and
\* `cat-file -e` resolved the pinned ref in it
CacheHit ==
    /\ gitUp.before.exists
    /\ Len(gitRuns) >= 2
    /\ gitRuns[1] = [cmd |-> "fetch", status |-> "success"]
    /\ gitRuns[2] = [cmd |-> "cat-file", status |-> "success"]

\* what the call ran before it discarded the trees: nothing when there was no
\* tree at the final path, else the fetch and the cat-file that failed
MissPrefix ==
    IF gitUp.before.exists THEN <<"fetch", "cat-file">> ELSE <<>>

FreshClone ==
    IF gitUp.staging THEN <<"clone", "clone", "reset", "submodule">>
    ELSE <<"clone", "reset", "submodule">>

\* C21: a Git::fetch that returns has was_cached = true exactly when it found
\* a tree at the final path, fetched into it and resolved the ref there, and
\* on that path it removes no directory and runs no clone; otherwise it
\* discards the clone path (and the final path under staging), clones afresh
\* (mirror into staging and from it into the final path, or straight into
\* the final path) before the reset and the submodule update, and returns
\* was_cached = false.
C21_CachedIffResolvable ==
    /\ [](gitPc = "ok" =>
            /\ gitResult.kind = "Installed"
            /\ gitResult.was_cached = CacheHit
            /\ CacheHit => GitCmds = <<"fetch", "cat-file", "reset", "submodule">>
            /\ ~CacheHit =>
                   /\ GitCmds = MissPrefix \o FreshClone
                   /\ gitUp.before.exists => gitRuns[2].status # "success"
                   /\ finalTree.origin = IF gitUp.staging THEN "staging" ELSE "uri"
                   /\ gitUp.staging => stagingTree.exists /\ stagingTree.origin = "uri")
    /\ [][/\ (CacheHit /\ gitPc \in {"reset", "submodule"}) =>
               /\ stagingTree' = stagingTree
               /\ finalTree'.exists /\ finalTree'.origin = finalTree.origin
          /\ (gitPc \in {"begin", "catfile"} /\ gitPc' = "clone") =>
               /\ finalTree' = NoTree
               /\ gitUp.staging => stagingTree' = NoTree
               /\ ~gitUp.staging => stagingTree' = stagingTree]_vars

\* under staging, a tree was at the final path, the ref was not resolved in
\* it, both trees were discarded and cloned afresh, and the call returned
C21_Witness ==
    /\ gitPc = "ok"
    /\ ~gitResult.was_cached
    /\ gitUp.staging
    /\ gitUp.before.exists
    /\ GitCmds = <<"fetch", "cat-file", "clone", "clone", "reset", "submodule">>

(***************************************************************************)
(* Properties of hash parsing (SpecHash).                                  *)
(***************************************************************************)
\* C20: a declared hash of fewer than 5 bytes is rejected as too short, one
\* of 5 bytes or more is accepted, and the cache path of every upstream that
\* was constructed has its first-5 and last-5 shards.
C20_AcceptedHashHasShards ==
    /\ pc[1] = "failed" =>
           ByteLen(recipe[1].hash) < MinHashLen /\ result[1].kind = "ParseHash"
    /\ pc[1] \in {"parsed", "path", "panicked"} =>
           ByteLen(recipe[1].hash) >= MinHashLen /\ ups[1].hash = recipe[1].hash
    /\ pc[1] # "panicked"
    /\ pc[1] = "path" =>
           /\ ByteLen(result[1].path[2]) = MinHashLen
           /\ ByteLen(result[1].path[3]) = MinHashLen

(***************************************************************************)
(* Properties of Installed::share (SpecShare).                             *)
(***************************************************************************)
\* a share of task 1's artifact ends in this step
ShareEnds ==
    /\ syncState = "none"
    /\ pc[1] \in {"fetched", "done", "copy"}
    /\ pc'[1] \in {"done", "failed"}
    /\ pc[1] # "copy" => fs' # fs

\* C17: a share into a directory that already has the entry, with the
\* content of the cache file as an earlier share left it, succeeds and
\* leaves the entry and the cache file with that content.
C17_ShareIsIdempotent ==
    [][(/\ ShareEnds
        /\ FsExists(fs, ShareTarget(ups[1]))
        /\ Content(fs, ShareTarget(ups[1])) = Content(fs, PlainPath(ups[1])))
       => /\ pc'[1] = "done"
          /\ Content(fs', ShareTarget(ups[1])) = Content(fs, ShareTarget(ups[1]))
          /\ Content(fs', PlainPath(ups[1])) = Content(fs, PlainPath(ups[1]))]_vars

(***************************************************************************)
(* Properties of the index synchroniser (SpecRefresh).                     *)
(***************************************************************************)
MetaPayloadsIn(idx) == {idx[i] : i \in {j \in DOMAIN idx : idx[j].kind = "meta"}}

RecordOf(p) == [name |-> p.body.name, hash |-> p.body.hash]

\* C10: after a refresh of a repository has returned success, the ids in its
\* metadata store are exactly the ids derived from the hash fields of the
\* Meta payloads of the index just downloaded, and the record under each id
\* is the record of such a payload; nothing of a prior refresh remains.
C10_RefreshReplaces ==
    \A r \in RepoIds :
        rpc[r] = "done" =>
            /\ DOMAIN db[r] = {PackageId(p.body.hash) : p \in MetaPayloadsIn(indexFile[r])}
            /\ \A k \in DOMAIN db[r] :
                  \E p \in MetaPayloadsIn(indexFile[r]) :
                      /\ k = PackageId(p.body.hash)
                      /\ db[r][k] = RecordOf(p)

\* a refresh over a store holding P from a prior refresh has succeeded with
\* an index that has other packages but not P
C10_Witness ==
    \E r \in RepoIds :
        /\ rpc[r] = "done"
        /\ DOMAIN db[r] # {}
        /\ \E k \in DOMAIN prevDb[r] : k \notin DOMAIN db[r]

\* a refresh_index call of repository r has returned
Returned(r) == rpc[r] \in {"done", "failed"}

BatchOf(idx, k) ==
    SubSeq(idx, (k - 1) * DB_BATCH_SIZE + 1,
           IF k * DB_BATCH_SIZE < Len(idx) THEN k * DB_BATCH_SIZE ELSE Len(idx))

\* the store that holds exactly the records of the Meta payloads of seq
StoreOf(seq) ==
    [k \in {PackageId(p.body.hash) : p \in MetaPayloadsIn(seq)} |->
        RecordOf(CHOOSE p \in MetaPayloadsIn(seq) : PackageId(p.body.hash) = k)]

\* the errors with which a batch ends the refresh
BatchStageError(e) ==
    \/ e = MgrError("ReadStone", <<"payload">>)
    \/ e.kind = "MissingMetaField"
    \/ e = MgrError("Database", <<"batch_add">>)

OkAdds(r) == Cardinality({i \in DOMAIN adds[r] : adds[r][i].ok})

\* a payload that fails to decode or a Meta payload that lacks a field
FaultIn(batch) ==
    \E i \in DOMAIN batch :
        \/ batch[i].kind = "corrupt"
        \/ batch[i].kind = "meta" /\ NoField \in {batch[i].body.hash, batch[i].body.name}

\* refresh_index of r has failed in its k-th batch: the store holds exactly
\* the records of batches 1..k-1 and the error is one the k-th batch gives
FailedInBatch(r) ==
    LET idx == indexFile[r]
        k == OkAdds(r) + 1
        e == rerr[r]
    IN  /\ rpos[r] = (k - 1) * DB_BATCH_SIZE
        /\ db[r] = StoreOf(SubSeq(idx, 1, (k - 1) * DB_BATCH_SIZE))
        /\ \A i \in DOMAIN adds[r] : ~adds[r][i].ok => i = k /\ i = Len(adds[r])
        /\ e.kind = "ReadStone" =>
              \E i \in DOMAIN BatchOf(idx, k) : BatchOf(idx, k)[i].kind = "corrupt"
        /\ e = MissingMetaField("PackageHash") =>
              \E i \in DOMAIN BatchOf(idx, k) :
                  /\ BatchOf(idx, k)[i].kind = "meta"
                  /\ BatchOf(idx, k)[i].body.hash = NoField
        /\ e.kind = "Database" => ~FaultIn(BatchOf(idx, k)) /\ Len(adds[r]) = k

\* C13: a refresh_index turn on a batch that has a payload that fails to
\* decode or a Meta payload without a field, or whose batch_add fails, makes
\* refresh return an error of that batch and inserts nothing; after it the
\* store holds exactly the records of the batches before it (the content
\* from before the refresh was wiped) and no batch_add follows.
C13_FailedBatchInsertsNothing ==
    /\ [](\A r \in RepoIds :
            (rpc[r] = "failed" /\ BatchStageError(rerr[r])) => FailedInBatch(r))
    /\ [][\A r \in RepoIds :
            (/\ At(r, "batch")
             /\ rpos[r] < Len(indexFile[r])
             /\ rpc'[r] # "batch" \/ adds'[r] # adds[r]
             /\ FaultIn(BatchOf(indexFile[r], OkAdds(r) + 1)) \/ rpc'[r] = "failed")
            => /\ rpc'[r] = "failed"
               /\ BatchStageError(rerr'[r])
               /\ mgrResult' = MgrErr(rerr'[r])
               /\ db'[r] = db[r]
               /\ OkAdds(r)' = OkAdds(r)]_vars

\* a refresh has failed in its second batch on a Meta payload without hash,
\* the first batch being in the store
C13_Witness ==
    \E r \in RepoIds :
        /\ rpc[r] = "failed"
        /\ rerr[r] = MissingMetaField("PackageHash")
        /\ OkAdds(r) = 1
        /\ db[r] # DbEmpty

\* C14: until the index download of a refresh has succeeded its store is as
\* it was when the refresh was called; a refresh whose download failed has
\* returned the fetch error with the store still so; the wipe comes before
\* the first batch_add, which finds the store empty.
C14_WipeAfterDownload ==
    /\ [](\A r \in RepoIds :
            /\ rpc[r] \in {"mkdir", "fetch", "download", "wipe"} =>
                  db[r] = prevDb[r] /\ adds[r] = <<>>
            /\ (rpc[r] = "failed" /\ rerr[r].kind = "FetchIndex") =>
                  db[r] = prevDb[r] /\ adds[r] = <<>>
            /\ rpc[r] = "open" => db[r] = DbEmpty /\ adds[r] = <<>>)
    /\ [][\A r \in RepoIds :
            /\ (rpc[r] \in {"fetch", "download"} /\ rpc'[r] = "failed") =>
                  rerr'[r].kind = "FetchIndex" /\ mgrResult' = MgrErr(rerr'[r])
            /\ (adds'[r] # adds[r] /\ adds[r] = <<>> /\ adds'[r] # <<>>) =>
                  rpc[r] = "batch" /\ db[r] = DbEmpty]_vars

\* a refresh over a store that held packages has failed in its download
C14_Witness ==
    \E r \in RepoIds :
        /\ rpc[r] = "failed"
        /\ rerr[r].kind = "FetchIndex"
        /\ prevDb[r] # DbEmpty
        /\ db[r] = prevDb[r]

\* what the index synchroniser touches of repository r
SyncStateOf(r) == <<db[r], indexFile[r], rpc[r], rpos[r], adds[r]>>

\* C15: a refresh call that returns UnknownRepo(id) was made with an id
\* that is not configured and has changed no store, index file or
\* synchroniser state; a refresh call that starts the synchroniser starts it
\* for a configured id, and while the call lasts only that repository's
\* store, index file and synchroniser state change.
C15_RefreshOnlyConfigured ==
    [][/\ (mgrCalls' # mgrCalls /\ mgrResult'.err.kind = "UnknownRepo") =>
            /\ mgrResult'.err.arg[1] \notin DOMAIN repositories
            /\ mgr'.op = "none"
            /\ \A r \in RepoIds : SyncStateOf(r)' = SyncStateOf(r)
            /\ UNCHANGED <<repositories, dirs>>
       /\ (mgrCalls' # mgrCalls /\ mgr'.op = "refresh") =>
            /\ mgr'.id \in DOMAIN repositories
            /\ rpc'[mgr'.id] = "mkdir"
            /\ \A r \in RepoIds \ {mgr'.id} : SyncStateOf(r)' = SyncStateOf(r)
       /\ mgr.op = "refresh" =>
            \A r \in RepoIds \ {mgr.id} : SyncStateOf(r)' = SyncStateOf(r)]_vars

\* refresh of an id that is not configured has returned UnknownRepo while a
\* configured repository holds packages
C15_Witness ==
    /\ mgr.op = "none"
    /\ mgrResult.err.kind = "UnknownRepo"
    /\ mgrResult.err.arg[1] \notin DOMAIN repositories
    /\ \E r \in DOMAIN repositories : db[r] # DbEmpty /\ rpc[r] = "done"

\* C16: remove_repository(id) takes id, and nothing else, out of the
\* configured set when it is called; the set does not change until the
\* call returns, with Ok or with Error::RemoveDir, so id is not in it
\* afterwards; and the synchroniser is never started for an id that is not
\* in the set, so a later refresh(id) gets UnknownRepo.
C16_RemovedIsUnknown ==
    /\ [](mgr.op = "refresh" => mgr.id \in DOMAIN repositories)
    /\ [][/\ (mgrCalls' # mgrCalls /\ mgr'.op = "remove") =>
               /\ DOMAIN repositories' = DOMAIN repositories \ {mgr'.id}
               /\ \A k \in DOMAIN repositories' : repositories'[k] = repositories[k]
          /\ mgr.op = "remove" =>
               /\ UNCHANGED repositories
               /\ mgr.id \notin DOMAIN repositories'
               /\ \/ mgr'.op = "remove"
                  \/ mgrResult' = MgrOk
                  \/ mgrResult'.err.kind = "RemoveDir"
          /\ (mgrCalls' # mgrCalls /\ mgr'.op = "none"
                /\ mgrResult'.err.kind = "UnknownRepo") =>
               mgrResult'.err.arg[1] \notin DOMAIN repositories]_vars

\* repository 1, configured at construction, was removed with
\* Error::RemoveDir and refresh(1) has then returned UnknownRepo
C16_Witness ==
    /\ mgr.op = "none"
    /\ mgrResult = MgrErr(UnknownRepo(1))
    /\ 1 \in dirs
    /\ 1 \notin DOMAIN repositories

(***************************************************************************)
(* Properties of Manager::refresh_all (SpecManager).                       *)
(***************************************************************************)
\* C11: when refresh_all has returned an error, the refresh of every
\* configured repository has run to its own end (done or failed): none was
\* left where it stood, in particular none between its wipe and its last
\* batch insert.
C11_JoinWaitsForAll ==
    (mgr.op = "none" /\ mgrResult.kind = "err") =>
        \A r \in DOMAIN repositories :
            /\ r \notin cancelled
            /\ rpc[r] \in {"done", "failed"}

(***************************************************************************)
(* Properties of the calls on one Manager (SpecCalls).                     *)
(***************************************************************************)
\* a call starts a refresh_index for repository r in this step
Started(r) == mgrCalls' # mgrCalls /\ rpc'[r] = "mkdir" /\ r \notin cancelled'

RunningSet == {r \in RepoIds : Running(r)}

\* C22: whatever calls are made on one Manager, a refresh_index starts for a
\* repository only when none is active for it, refresh_all starts one for
\* each configured repository and for no other, and a store is wiped or
\* added to only by the one refresh_index that is active for it.
C22_OneSynchronizerPerRepository ==
    /\ [](/\ mgr.op = "refresh" => RunningSet \subseteq {mgr.id}
          /\ mgr.op = "refresh_all" => RunningSet \subseteq DOMAIN repositories
          /\ mgr.op \notin {"refresh", "refresh_all"} => RunningSet = {})
    /\ [][\A r \in RepoIds :
             /\ Started(r) => ~Running(r)
             /\ mgr'.op = "refresh_all" /\ mgr.op # "refresh_all" =>
                    (Started(r) <=> r \in DOMAIN repositories)
             /\ (mgrCalls' = mgrCalls /\ mgr.op # "remove"
                    /\ (db'[r] # db[r] \/ adds'[r] # adds[r])) =>
                    /\ Running(r)
                    /\ mgr.op \in {"refresh", "refresh_all"}
                    /\ mgr.op = "refresh" => mgr.id = r
                    /\ \A o \in RepoIds \ {r} :
                           db'[o] = db[o] /\ adds'[o] = adds[o]]_vars

\* refresh_all has one refresh_index running for each of two repositories,
\* one of them added by add_repository, at different points
C22_Witness ==
    /\ mgr.op = "refresh_all"
    /\ DOMAIN repositories = {1, 2}
    /\ At(1, "batch") /\ adds[1] # <<>>
    /\ At(2, "wipe")

\* C23: an add_repository that returns an error leaves the repositories of
\* the Manager as they were before the call; one that returns Ok has added
\* the id with the repository given and kept every other entry; and no step
\* of it downloads an index or wipes or adds to a store.
C23_AddRepositoryAllOrNothing ==
    [][(mgr.op \in AddOps \/ mgr'.op \in AddOps) =>
          /\ db' = db /\ indexFile' = indexFile /\ adds' = adds /\ rpc' = rpc
          /\ IF mgr.op \in AddOps /\ mgrResult' = MgrOk
             THEN repositories' = Inserted(repositories, mgr.id, mgr.repository)
             ELSE repositories' = repositories
          /\ (mgr.op \in AddOps /\ mgr'.op = "none") =>
                 mgrResult'.kind \in {"ok", "err"}
          /\ (mgr.op \in AddOps /\ mgrResult'.kind = "err") =>
                 mgrResult'.err.kind \in {"SaveConfig", "CreateDir", "Database"}]_vars

\* add_repository saved the config and made the directory, the store could
\* not be opened, and the id is not among the repositories
C23_Witness ==
    /\ mgr.op = "none"
    /\ mgrResult = MgrErr(MgrError("Database", <<"new">>))
    /\ 2 \in DOMAIN configs /\ 2 \in dirs
    /\ 2 \notin DOMAIN repositories

====
